---- MODULE Spec2Model ----
(***************************************************************************)
(* Model of the HURDAT2 extraction and normalisation pipeline of           *)
(* src/__main__.py: process_file (the line-by-line extractor) followed by  *)
(* clean_data (the pandas normaliser).                                     *)
(*                                                                         *)
(* Python strings are modelled as sequences of one-character strings, so   *)
(* that split, slicing, int(), float(), str() and isoparse are computed    *)
(* character by character as the code computes them.                       *)
(***************************************************************************)
EXTENDS Integers, Sequences, FiniteSets, TLC

VARIABLES
    file,          \* the rows of the opened file, each ending with "\n"
    pc,            \* "extract" | "extracted" | "cleaned" | "failed"
    row_idx,       \* 1-based index of the next row of `for row in file`
    file_headers,  \* process_file: the list file_headers
    file_data,     \* process_file: the list file_data
    events,        \* clean_data: the returned events frame, row by row
    points,        \* clean_data: the returned points frame, row by row
    err            \* the exception that ended the run, "none" if there is none

vars == <<file, pc, row_idx, file_headers, file_data, events, points, err>>

(***************************************************************************)
(* Python string primitives                                                *)
(***************************************************************************)
Min(a, b) == IF a <= b THEN a ELSE b

DigitChars == <<"0", "1", "2", "3", "4", "5", "6", "7", "8", "9">>

IsDigit(c) == \E d \in 1..10 : DigitChars[d] = c

DigitVal(c) == (CHOOSE d \in 1..10 : DigitChars[d] = c) - 1

\* The characters of the model are the ASCII characters, written as
\* themselves, and the characters outside ASCII named here by code point.

\* Py_ISSPACE: the ASCII characters int() and float() strip at both ends
AsciiSpace == {" ", "\n", "\t", "\r", "\f", ""}

\* the spaces outside ASCII (Py_UNICODE_ISSPACE)
NonAsciiSpace ==
    {"U+0085", "U+00A0", "U+1680", "U+2000", "U+2001", "U+2002", "U+2003",
     "U+2004", "U+2005", "U+2006", "U+2007", "U+2008", "U+2009", "U+200A",
     "U+2028", "U+2029", "U+202F", "U+205F", "U+3000"}

\* decimal digits outside ASCII: the Arabic-Indic digits stand for them
NonAsciiDigits ==
    <<"U+0660", "U+0661", "U+0662", "U+0663", "U+0664",
      "U+0665", "U+0666", "U+0667", "U+0668", "U+0669">>

IsNonAsciiDigit(c) == \E d \in 1..10 : NonAsciiDigits[d] = c

IsNonAscii(c) == c \in NonAsciiSpace \/ IsNonAsciiDigit(c)

\* _PyUnicode_TransformDecimalAndSpaceToASCII, which int() and float()
\* apply to a str: a space outside ASCII becomes " ", a decimal digit
\* outside ASCII its ASCII digit, an ASCII character stays
ToAscii(s) ==
    [i \in 1..Len(s) |->
        IF s[i] \in NonAsciiSpace THEN " "
        ELSE IF IsNonAsciiDigit(s[i])
        THEN DigitChars[CHOOSE d \in 1..10 : NonAsciiDigits[d] = s[i]]
        ELSE s[i]]

\* s[a:b] for 0 <= a, 0 <= b
PySlice(s, a, b) ==
    LET hi == Min(b, Len(s))
    IN  IF a + 1 > hi THEN <<>> ELSE SubSeq(s, a + 1, hi)

\* s[a:] for 0 <= a
PyFrom(s, a) == PySlice(s, a, Len(s))

\* s[-n:] for n > 0
PyLastN(s, n) == IF Len(s) <= n THEN s ELSE SubSeq(s, Len(s) - n + 1, Len(s))

\* s[:-1]
PyAllButLast(s) == IF Len(s) = 0 THEN <<>> ELSE SubSeq(s, 1, Len(s) - 1)

\* s.lstrip(" ")
RECURSIVE LStripSpace(_)
LStripSpace(s) ==
    IF Len(s) > 0 /\ s[1] = " " THEN LStripSpace(Tail(s)) ELSE s

RECURSIVE LStripWs(_)
LStripWs(s) ==
    IF Len(s) > 0 /\ s[1] \in AsciiSpace THEN LStripWs(Tail(s)) ELSE s

RECURSIVE RStripWs(_)
RStripWs(s) ==
    IF Len(s) > 0 /\ s[Len(s)] \in AsciiSpace
    THEN RStripWs(SubSeq(s, 1, Len(s) - 1))
    ELSE s

\* the text int() and float() parse: transformed, then stripped
Strip(s) == RStripWs(LStripWs(ToAscii(s)))

\* row.split(","): the pieces between consecutive commas, empty pieces kept
Split(s) ==
    LET commas == {i \in 1..Len(s) : s[i] = ","}
        n      == Cardinality(commas)
        pos(k) == IF k = 0 THEN 0
                  ELSE IF k = n + 1 THEN Len(s) + 1
                  ELSE CHOOSE i \in commas : Cardinality({j \in commas : j <= i}) = k
    IN  [k \in 1..(n + 1) |-> SubSeq(s, pos(k - 1) + 1, pos(k) - 1)]

\* sep.join(parts)
RECURSIVE Join(_, _)
Join(parts, sep) ==
    IF Len(parts) = 0 THEN <<>>
    ELSE IF Len(parts) = 1 THEN parts[1]
    ELSE parts[1] \o sep \o Join(Tail(parts), sep)

(***************************************************************************)
(* int(), float() and str()                                                *)
(***************************************************************************)
\* the digit part of a numeric literal: digits, single underscores between
ValidDigits(b) ==
    /\ Len(b) > 0
    /\ \A i \in 1..Len(b) : IsDigit(b[i]) \/ b[i] = "_"
    /\ IsDigit(b[1])
    /\ IsDigit(b[Len(b)])
    /\ \A i \in 1..(Len(b) - 1) : ~(b[i] = "_" /\ b[i + 1] = "_")

RECURSIVE DigitsValue(_, _)
DigitsValue(b, acc) ==
    IF Len(b) = 0 THEN acc
    ELSE IF b[1] = "_" THEN DigitsValue(Tail(b), acc)
    ELSE DigitsValue(Tail(b), 10 * acc + DigitVal(b[1]))

HasSign(t) == Len(t) > 0 /\ t[1] \in {"+", "-"}

\* int(s): ok = FALSE stands for the ValueError. Python integers have no
\* width; the values here are of at most 9 digits.
IntParse(s) ==
    LET t    == Strip(s)
        body == IF HasSign(t) THEN Tail(t) ELSE t
    IN  IF ValidDigits(body)
        THEN [ok |-> TRUE,
              val |-> (IF HasSign(t) /\ t[1] = "-" THEN -1 ELSE 1) * DigitsValue(body, 0)]
        ELSE [ok |-> FALSE, val |-> 0]

RECURSIVE NatStr(_)
NatStr(n) ==
    IF n < 10 THEN <<DigitChars[n + 1]>>
    ELSE Append(NatStr(n \div 10), DigitChars[(n % 10) + 1])

\* str(n) for an int
IntStr(n) == IF n < 0 THEN <<"-">> \o NatStr(-n) ELSE NatStr(n)

\* index of the first character of s that is in chars, 0 if there is none
FirstIndex(s, chars) ==
    IF \A i \in 1..Len(s) : s[i] \notin chars THEN 0
    ELSE CHOOSE i \in 1..Len(s) :
             s[i] \in chars /\ \A j \in 1..(i - 1) : s[j] \notin chars

\* the digits of a digit part, as numbers, without the underscores
RECURSIVE DigitList(_)
DigitList(b) ==
    IF \A i \in 1..Len(b) : b[i] # "_" THEN [i \in 1..Len(b) |-> DigitVal(b[i])]
    ELSE IF b[1] = "_" THEN DigitList(Tail(b))
    ELSE <<DigitVal(b[1])>> \o DigitList(Tail(b))

(***************************************************************************)
(* Decimal arithmetic on digit lists, for the rounding float() does. A     *)
(* decimal is [d, p]: the integer written by the digits d, divided by      *)
(* 10^p. Doubling and halving are exact in this form.                      *)
(***************************************************************************)
Max(a, b) == IF a >= b THEN a ELSE b

Zeros(n) == [i \in 1..n |-> 0]

StripLead(d) ==
    IF \A i \in 1..Len(d) : d[i] = 0 THEN <<>>
    ELSE SubSeq(d, CHOOSE i \in 1..Len(d) :
                       d[i] # 0 /\ \A j \in 1..(i - 1) : d[j] = 0,
                Len(d))

StripTrail(d) ==
    IF \A i \in 1..Len(d) : d[i] = 0 THEN <<>>
    ELSE SubSeq(d, 1, CHOOSE i \in 1..Len(d) :
                          d[i] # 0 /\ \A j \in (i + 1)..Len(d) : d[j] = 0)

\* the same decimal without leading zeros and needless fraction digits
DecNorm(d, p) ==
    LET a == StripLead(d)
        k == Min(p, Len(a) - Len(StripTrail(a)))
    IN  IF a = <<>> THEN [d |-> <<>>, p |-> 0]
        ELSE [d |-> SubSeq(a, 1, Len(a) - k), p |-> p - k]

Dbl(x) ==
    LET d == x.d
        L == Len(d)
    IN  DecNorm([i \in 1..(L + 1) |->
                    IF i = 1 THEN (IF L > 0 /\ d[1] >= 5 THEN 1 ELSE 0)
                    ELSE ((2 * d[i - 1]) % 10) + (IF i <= L /\ d[i] >= 5 THEN 1 ELSE 0)],
                x.p)

Hlv(x) ==
    LET dd == Append(x.d, 0)
    IN  DecNorm([i \in 1..Len(dd) |->
                    (dd[i] + 10 * (IF i > 1 THEN dd[i - 1] % 2 ELSE 0)) \div 2],
                x.p + 1)

\* x * 2^k, by halves of k; the first half is computed (its p is never
\* negative) before the second is begun
RECURSIVE Scale2(_, _)
Scale2(x, k) ==
    IF k = 0 THEN x
    ELSE IF k = 1 THEN Dbl(x)
    ELSE IF k = -1 THEN Hlv(x)
    ELSE LET h == IF k > 0 THEN k \div 2 ELSE -((-k) \div 2)
             a == Scale2(x, h)
         IN  IF a.p >= 0 THEN Scale2(a, k - h) ELSE a

IntPart(x) == IF Len(x.d) <= x.p THEN <<>> ELSE SubSeq(x.d, 1, Len(x.d) - x.p)

FracPart(x) ==
    IF Len(x.d) >= x.p THEN SubSeq(x.d, Len(x.d) - x.p + 1, Len(x.d))
    ELSE Zeros(x.p - Len(x.d)) \o x.d

\* -1, 0, 1 as a < b, a = b, a > b, for digit lists without leading zeros
CmpInt(a, b) ==
    IF Len(a) # Len(b) THEN (IF Len(a) < Len(b) THEN -1 ELSE 1)
    ELSE IF \A i \in 1..Len(a) : a[i] = b[i] THEN 0
    ELSE LET k == CHOOSE i \in 1..Len(a) :
                      a[i] # b[i] /\ \A j \in 1..(i - 1) : a[j] = b[j]
         IN  IF a[k] < b[k] THEN -1 ELSE 1

CmpDec(x, y) ==
    LET P == Max(x.p, y.p)
    IN  CmpInt(StripLead(x.d \o Zeros(P - x.p)), StripLead(y.d \o Zeros(P - y.p)))

\* a + 1
Inc(a) ==
    IF \A i \in 1..Len(a) : a[i] = 9 THEN <<1>> \o Zeros(Len(a))
    ELSE LET k == CHOOSE i \in 1..Len(a) :
                      a[i] # 9 /\ \A j \in (i + 1)..Len(a) : a[j] = 9
         IN  SubSeq(a, 1, k - 1) \o <<a[k] + 1>> \o Zeros(Len(a) - k)

\* a - 1, for a > 0
Dec(a) ==
    LET k == CHOOSE i \in 1..Len(a) : a[i] # 0 /\ \A j \in (i + 1)..Len(a) : a[j] = 0
    IN  StripLead(SubSeq(a, 1, k - 1) \o <<a[k] - 1>>
                      \o [i \in 1..(Len(a) - k) |-> 9])

Two52 == <<4, 5, 0, 3, 5, 9, 9, 6, 2, 7, 3, 7, 0, 4, 9, 6>>

Two53 == <<9, 0, 0, 7, 1, 9, 9, 2, 5, 4, 7, 4, 0, 9, 9, 2>>

\* the integer nearest to x, the even one of two equally near
RoundHalfEven(x) ==
    LET I == IntPart(x)
        F == FracPart(x)
    IN  IF F = <<>> \/ F[1] < 5 THEN I
        ELSE IF F[1] > 5 \/ \E i \in 2..Len(F) : F[i] # 0 THEN Inc(I)
        ELSE IF I # <<>> /\ I[Len(I)] % 2 = 1 THEN Inc(I)
        ELSE I

\* 0.sd * 10^decpt as a decimal
ToDec(sd, decpt) ==
    IF decpt >= Len(sd) THEN DecNorm(sd \o Zeros(decpt - Len(sd)), 0)
    ELSE DecNorm(sd, Len(sd) - decpt)

\* e with 2^e <= x < 2^(e+1), for y = x / 2^e0 near 1
RECURSIVE BinExpFrom(_, _)
BinExpFrom(y, e0) ==
    IF CmpInt(IntPart(y), <<2>>) >= 0 THEN BinExpFrom(Hlv(y), e0 + 1)
    ELSE IF IntPart(y) = <<>> THEN BinExpFrom(Dbl(y), e0 - 1)
    ELSE e0

\* the binary exponent of x = 0.sd * 10^decpt; the search starts from an
\* estimate by log2(10) ~ 3.3219
BinExp(x, decpt) ==
    LET elo == (((decpt - 1) * 33219) \div 10000) - 1
    IN  BinExpFrom(Scale2(x, -elo), elo)

\* The IEEE 754 double nearest to 0.sd * 10^decpt (sd without leading
\* zeros, not empty), ties to even: the double is m * 2^(e - 52), with
\* m < 2^52 only for e = -1022 (subnormal). Too small gives zero, too
\* large infinity.
ToDouble(sd, decpt) ==
    IF decpt > 310 THEN [kind |-> "inf", m |-> <<>>, e |-> 0]
    ELSE IF decpt < -325 THEN [kind |-> "zero", m |-> <<>>, e |-> 0]
    ELSE LET x  == ToDec(sd, decpt)
             ee == Max(BinExp(x, decpt), -1022)
             m0 == RoundHalfEven(Scale2(x, 52 - ee))
             up == CmpInt(m0, Two53) = 0
             e2 == IF up THEN ee + 1 ELSE ee
         IN  IF e2 > 1023 THEN [kind |-> "inf", m |-> <<>>, e |-> 0]
             ELSE IF m0 = <<>> THEN [kind |-> "zero", m |-> <<>>, e |-> 0]
             ELSE [kind |-> "finite", m |-> IF up THEN Two52 ELSE m0, e |-> e2]

\* is 0.c * 10^cdec read back as the double between low and high
ReadsBack(c, cdec, low, high, even) ==
    LET x == ToDec(c, cdec)
        a == CmpDec(low, x)
        b == CmpDec(x, high)
    IN  (a < 0 \/ (a = 0 /\ even)) /\ (b < 0 \/ (b = 0 /\ even))

\* repr: the shortest digits that read back as the double, and of those
\* the nearest to it; sd and decpt are the exact decimal of the double
RECURSIVE ShortestFrom(_, _, _, _, _, _)
ShortestFrom(n, sd, decpt, low, high, even) ==
    IF n >= Len(sd) THEN [digits |-> sd, decpt |-> decpt]
    ELSE LET lo   == SubSeq(sd, 1, n)
             inc  == Inc(lo)
             over == Len(inc) > n
             hi   == SubSeq(inc, 1, n)
             hdec == IF over THEN decpt + 1 ELSE decpt
             oklo == ReadsBack(lo, decpt, low, high, even)
             okhi == ReadsBack(hi, hdec, low, high, even)
             rlo  == [digits |-> lo, decpt |-> decpt]
             rhi  == [digits |-> StripTrail(hi), decpt |-> hdec]
         IN  IF oklo /\ okhi
             THEN (IF sd[n + 1] < 5 THEN rlo
                   ELSE IF sd[n + 1] > 5 \/ \E i \in (n + 2)..Len(sd) : sd[i] # 0 THEN rhi
                   ELSE IF lo[n] % 2 = 0 THEN rlo ELSE rhi)
             ELSE IF oklo THEN rlo
             ELSE IF okhi THEN rhi
             ELSE ShortestFrom(n + 1, sd, decpt, low, high, even)

Shortest(m, e) ==
    LET w    == Scale2([d |-> m, p |-> 0], e - 52)
        twoM == Dbl([d |-> m, p |-> 0]).d
        high == Scale2([d |-> Inc(twoM), p |-> 0], e - 53)
        low  == IF CmpInt(m, Two52) = 0 /\ e > -1022
                THEN Scale2([d |-> Dec(Dbl([d |-> twoM, p |-> 0]).d), p |-> 0], e - 54)
                ELSE Scale2([d |-> Dec(twoM), p |-> 0], e - 53)
    IN  ShortestFrom(1, w.d, Len(w.d) - w.p, [d |-> low.d, p |-> low.p],
                     [d |-> high.d, p |-> high.p], m[Len(m)] % 2 = 0)

(***************************************************************************)
(* float() and str() of a float                                            *)
(***************************************************************************)
LowerChar(c) ==
    IF c = "I" THEN "i" ELSE IF c = "N" THEN "n" ELSE IF c = "F" THEN "f"
    ELSE IF c = "T" THEN "t" ELSE IF c = "Y" THEN "y" ELSE IF c = "A" THEN "a"
    ELSE c

LowerWord(s) == [i \in 1..Len(s) |-> LowerChar(s[i])]

IsInfWord(s) ==
    \/ LowerWord(s) = <<"i", "n", "f">>
    \/ LowerWord(s) = <<"i", "n", "f", "i", "n", "i", "t", "y">>

IsNanWord(s) == LowerWord(s) = <<"n", "a", "n">>

\* The parts of a decimal literal without its sign:
\* digits [. digits] [(e | E) [sign] digits]
LiteralParts(body) ==
    LET ex   == FirstIndex(body, {"e", "E"})
        mant == IF ex = 0 THEN body ELSE SubSeq(body, 1, ex - 1)
        expo == IF ex = 0 THEN <<>> ELSE SubSeq(body, ex + 1, Len(body))
        dot  == FirstIndex(mant, {"."})
    IN  [ipart  |-> IF dot = 0 THEN mant ELSE SubSeq(mant, 1, dot - 1),
         fpart  |-> IF dot = 0 THEN <<>> ELSE SubSeq(mant, dot + 1, Len(mant)),
         hasExp |-> ex # 0,
         eneg   |-> HasSign(expo) /\ expo[1] = "-",
         edigs  |-> IF HasSign(expo) THEN Tail(expo) ELSE expo]

\* does float(s) return (FALSE stands for the ValueError)
FloatOk(s) ==
    LET t    == Strip(s)
        body == IF HasSign(t) THEN Tail(t) ELSE t
        lit  == LiteralParts(body)
    IN  \/ IsInfWord(body)
        \/ IsNanWord(body)
        \/ /\ Len(lit.ipart) + Len(lit.fpart) > 0
           /\ Len(lit.ipart) = 0 \/ ValidDigits(lit.ipart)
           /\ Len(lit.fpart) = 0 \/ ValidDigits(lit.fpart)
           /\ lit.hasExp => ValidDigits(lit.edigs)

\* the exponent of a literal; one of more than 6 digits is far outside
\* the range of a double whatever the digits before it
ExponentValue(lit) ==
    LET ds == StripLead(DigitList(lit.edigs))
        v  == IF Len(ds) > 6 THEN 1000000
              ELSE DigitsValue([i \in 1..Len(ds) |-> DigitChars[ds[i] + 1]], 0)
    IN  IF ~lit.hasExp THEN 0 ELSE IF lit.eneg THEN -v ELSE v

FloatZero(neg) == [kind |-> "finite", neg |-> neg, digits |-> <<>>, decpt |-> 0]

\* float(s). A float is kept as the sign bit neg and, when finite, the
\* digits and the decimal point position that repr prints for it: the
\* value is 0.digits * 10^decpt, zero has no digits and has both signs.
\* A literal of at most 15 significant digits in the range of the normal
\* doubles is printed back by repr with its own digits (DBL_DIG), so its
\* digits are taken as they are; any other literal is rounded to the
\* nearest double and the shortest digits of that double are taken.
FloatParse(s) ==
    LET t     == Strip(s)
        neg   == HasSign(t) /\ t[1] = "-"
        body  == IF HasSign(t) THEN Tail(t) ELSE t
        lit   == LiteralParts(body)
        idigs == DigitList(lit.ipart)
        all   == idigs \o DigitList(lit.fpart)
        lead  == Len(all) - Len(StripLead(all))
        sd    == StripTrail(StripLead(all))
        decpt == Len(idigs) - lead + ExponentValue(lit)
        dbl   == ToDouble(sd, decpt)
        sh    == Shortest(dbl.m, dbl.e)
    IN  IF ~FloatOk(s) THEN FloatZero(FALSE)
        ELSE IF IsInfWord(body)
        THEN [kind |-> "inf", neg |-> neg, digits |-> <<>>, decpt |-> 0]
        ELSE IF IsNanWord(body)
        THEN [kind |-> "nan", neg |-> neg, digits |-> <<>>, decpt |-> 0]
        ELSE IF sd = <<>> THEN FloatZero(neg)
        ELSE IF Len(sd) <= 15 /\ decpt \in -306..308
        THEN [kind |-> "finite", neg |-> neg, digits |-> sd, decpt |-> decpt]
        ELSE IF dbl.kind = "zero" THEN FloatZero(neg)
        ELSE IF dbl.kind = "inf"
        THEN [kind |-> "inf", neg |-> neg, digits |-> <<>>, decpt |-> 0]
        ELSE [kind |-> "finite", neg |-> neg,
              digits |-> sh.digits, decpt |-> sh.decpt]

\* x * m for m in {-1, 1}: the multiplication xors the sign bits of a
\* number; a nan comes back as it went in, its sign bit included
FloatTimes(x, m) ==
    IF x.kind = "nan" THEN x
    ELSE [x EXCEPT !.neg = IF m < 0 THEN ~x.neg ELSE x.neg]

FloatIsZero(x) == x.kind = "finite" /\ x.digits = <<>>

\* x < 0 as Python compares: -0.0 < 0 and nan < 0 are False
FloatLtZero(x) == x.neg /\ x.kind # "nan" /\ ~FloatIsZero(x)

DigitStr(ds) == [i \in 1..Len(ds) |-> DigitChars[ds[i] + 1]]

\* str(x), the repr of a float: positional for 1e-4 <= |x| < 1e16, with
\* an exponent of at least two digits otherwise
FloatStr(x) ==
    LET sign == IF x.neg THEN <<"-">> ELSE <<>>
        n    == Len(x.digits)
        ds   == DigitStr(x.digits)
        ex   == x.decpt - 1
        exs  == IF ex < 0 THEN NatStr(-ex) ELSE NatStr(ex)
    IN  IF x.kind = "nan" THEN <<"n", "a", "n">>
        ELSE IF x.kind = "inf" THEN sign \o <<"i", "n", "f">>
        ELSE IF n = 0 THEN sign \o <<"0", ".", "0">>
        ELSE IF x.decpt > 16 \/ x.decpt < -3
        THEN sign \o <<ds[1]>>
                 \o (IF n > 1 THEN <<".">> \o SubSeq(ds, 2, n) ELSE <<>>)
                 \o <<"e", IF ex < 0 THEN "-" ELSE "+">>
                 \o (IF Len(exs) < 2 THEN <<"0">> ELSE <<>>) \o exs
        ELSE IF x.decpt <= 0
        THEN sign \o <<"0", ".">> \o DigitStr(Zeros(-x.decpt)) \o ds
        ELSE IF x.decpt >= n
        THEN sign \o ds \o DigitStr(Zeros(x.decpt - n)) \o <<".", "0">>
        ELSE sign \o SubSeq(ds, 1, x.decpt) \o <<".">> \o SubSeq(ds, x.decpt + 1, n)

(***************************************************************************)
(* dateutil.parser.isoparse on the composed timestamp                      *)
(***************************************************************************)
IsLeap(y) == (y % 4 = 0 /\ y % 100 # 0) \/ y % 400 = 0

DaysInMonth(y, m) ==
    IF m = 2 THEN (IF IsLeap(y) THEN 29 ELSE 28)
    ELSE IF m \in {4, 6, 9, 11} THEN 30 ELSE 31

\* datetime(y, mo, d, h, mi) accepts exactly these
ValidDateTime(y, mo, d, h, mi) ==
    /\ y \in 1..9999
    /\ mo \in 1..12
    /\ d \in 1..DaysInMonth(y, mo)
    /\ h \in 0..23
    /\ mi \in 0..59

\* dt + timedelta(days=1), the 24:00 rollover of isoparse
NextDay(dt) ==
    IF dt.day < DaysInMonth(dt.year, dt.month) THEN [dt EXCEPT !.day = dt.day + 1]
    ELSE IF dt.month < 12 THEN [dt EXCEPT !.day = 1, !.month = dt.month + 1]
    ELSE [dt EXCEPT !.day = 1, !.month = 1, !.year = dt.year + 1]

NoDateTime == [year |-> 0, month |-> 0, day |-> 0, hour |-> 0, minute |-> 0]

TimeSuffix == <<":", "0", "0", ".", "0", "0", "0", "Z">>

\* isoparse(s) for s = year-month-dayThours:minutes:00.000Z. The date is
\* read at fixed positions of s (_parse_isodate_common); the week and
\* ordinal forms of _parse_isodate_uncommon cannot match such an s, their
\* number would end in "-". The time is read by _parse_isotime, whose
\* first character may not open a time zone. isoparse encodes s to ASCII
\* first, so a character outside ASCII is a ValueError, and the numbers
\* are read by int() from ASCII bytes.
IsoParse(s) ==
    LET y   == IntParse(PySlice(s, 0, 4))
        mo  == IntParse(PySlice(s, 5, 7))
        d   == IntParse(PySlice(s, 8, 10))
        t   == PyFrom(s, 11)
        h   == IntParse(PySlice(t, 0, 2))
        mi  == IntParse(PySlice(t, 3, 5))
        shape == /\ \A i \in 1..Len(s) : ~IsNonAscii(s[i])
                 /\ Len(s) >= 11
                 /\ y.ok /\ s[5] = "-" /\ mo.ok /\ s[8] = "-" /\ d.ok
                 /\ Len(t) >= 2 /\ t[1] \notin {"-", "+", "Z", "z"}
                 /\ h.ok /\ PySlice(t, 2, 3) = <<":">> /\ mi.ok
                 /\ PyFrom(t, 5) = TimeSuffix
        dt  == [year |-> y.val, month |-> mo.val, day |-> d.val,
                hour |-> h.val, minute |-> mi.val]
    IN  IF ~shape THEN [err |-> "ValueError", dt |-> NoDateTime]
        ELSE IF h.val = 24
        THEN IF mi.val # 0 \/ ~ValidDateTime(y.val, mo.val, d.val, 0, 0)
             THEN [err |-> "ValueError", dt |-> NoDateTime]
             ELSE IF y.val = 9999 /\ mo.val = 12 /\ d.val = 31
             THEN [err |-> "OverflowError", dt |-> NoDateTime]
             ELSE [err |-> "none", dt |-> NextDay([dt EXCEPT !.hour = 0])]
        ELSE IF ~ValidDateTime(y.val, mo.val, d.val, h.val, mi.val)
        THEN [err |-> "ValueError", dt |-> NoDateTime]
        ELSE [err |-> "none", dt |-> dt]

(***************************************************************************)
(* The code tables and the cells of a data frame                           *)
(***************************************************************************)
\* A cell is an int, pd.NA or a string.
IntCell(n) == [tag |-> "int", int |-> n, str |-> <<>>]

NA == [tag |-> "NA", int |-> 0, str |-> <<>>]

StrCell(s) == [tag |-> "str", int |-> 0, str |-> s]

record_identifier ==
    << [key |-> <<"C">>, val |-> IntCell(0)],
       [key |-> <<"G">>, val |-> IntCell(1)],
       [key |-> <<"I">>, val |-> IntCell(2)],
       [key |-> <<"L">>, val |-> IntCell(3)],
       [key |-> <<"P">>, val |-> IntCell(4)],
       [key |-> <<"R">>, val |-> IntCell(5)],
       [key |-> <<"S">>, val |-> IntCell(6)],
       [key |-> <<"T">>, val |-> IntCell(7)],
       [key |-> <<"W">>, val |-> IntCell(8)],
       [key |-> <<" ">>, val |-> NA] >>

status ==
    << [key |-> <<"T", "D">>, val |-> IntCell(0)],
       [key |-> <<"T", "S">>, val |-> IntCell(1)],
       [key |-> <<"H", "U">>, val |-> IntCell(2)],
       [key |-> <<"E", "X">>, val |-> IntCell(3)],
       [key |-> <<"S", "D">>, val |-> IntCell(4)],
       [key |-> <<"S", "S">>, val |-> IntCell(5)],
       [key |-> <<"L", "O">>, val |-> IntCell(6)],
       [key |-> <<"W", "V">>, val |-> IntCell(7)],
       [key |-> <<"D", "B">>, val |-> IntCell(8)],
       [key |-> <<" ", " ">>, val |-> NA],
       [key |-> <<"E", "T">>, val |-> NA],
       [key |-> <<"T", "Y">>, val |-> NA],
       [key |-> <<"S", "T">>, val |-> NA],
       [key |-> <<"P", "T">>, val |-> NA] >>

HasKey(table, raw) == \E i \in 1..Len(table) : table[i].key = raw

Lookup(table, raw) == table[CHOOSE i \in 1..Len(table) : table[i].key = raw].val

(***************************************************************************)
(* process_file: one row of the loop                                       *)
(***************************************************************************)
\* a fault for C8: the new row is put in front
PrependRow(list, r) == <<r>> \o list

\* file_headers.append / file_data.append
AppendRow(list, r) == Append(list, r)

\* row_split[k], k counted from 0 as the code counts
Field(row_split, k) == row_split[k + 1]

HeaderRowError(row_split) ==
    IF IntParse(Field(row_split, 2)).ok THEN "none" ELSE "ValueError"

HeaderRecord(row_split) ==
    [event_id   |-> Field(row_split, 0),
     basin      |-> PySlice(Field(row_split, 0), 0, 2),
     storm_num  |-> PySlice(Field(row_split, 0), 2, 4),
     year       |-> PySlice(Field(row_split, 0), 4, 8),
     name       |-> LStripSpace(Field(row_split, 1)),
     num_points |-> IntParse(Field(row_split, 2)).val]

\* a fault for C1: the first header owns every row
FirstEventId(headers) == headers[1].event_id

\* file_headers[-1][0]
CurrentEventId(headers) == headers[Len(headers)].event_id

\* float(f[:-1]) * (-1 if f[-1] == marker else 1)
SignedDegrees(f, marker) ==
    FloatTimes(FloatParse(PyAllButLast(f)), IF f[Len(f)] = marker THEN -1 ELSE 1)

\* a fault for C10: the northern marker negates
LatitudeNegatesNorth(f) == SignedDegrees(f, "N")

Latitude(f) == SignedDegrees(f, "S")

Longitude(f) == SignedDegrees(f, "W")

\* a fault for C5: a field that is no number is taken as 0
FieldErrorIndexOnly(row_split, k) ==
    IF Len(row_split) < k + 1 THEN "IndexError"
    ELSE IF k \in {2, 4, 5} /\ Len(Field(row_split, k)) = 0 THEN "IndexError"
    ELSE "none"

\* the exception raised by the expression of the data row that reads
\* row_split[k], "none" if it raises nothing
FieldError(row_split, k) ==
    IF Len(row_split) < k + 1 THEN "IndexError"
    ELSE LET f == Field(row_split, k)
         IN  IF k = 2 THEN (IF Len(f) = 0 THEN "IndexError" ELSE "none")
             ELSE IF k \in {4, 5}
             THEN (IF FloatOk(PyAllButLast(f)) THEN "none" ELSE "ValueError")
             ELSE IF k \in 6..19
             THEN (IF IntParse(LStripSpace(f)).ok THEN "none" ELSE "ValueError")
             ELSE "none"

\* the list display is evaluated left to right: the first failure wins
RECURSIVE FirstFieldError(_, _)
FirstFieldError(row_split, k) ==
    IF k > 19 THEN "none"
    ELSE IF FieldError(row_split, k) # "none" THEN FieldError(row_split, k)
    ELSE FirstFieldError(row_split, k + 1)

DataRowError(headers, row_split) ==
    IF Len(headers) = 0 THEN "IndexError" ELSE FirstFieldError(row_split, 1)

IntField(row_split, k) == IntParse(LStripSpace(Field(row_split, k))).val

DataRecord(headers, row_split) ==
    [event_id        |-> CurrentEventId(headers),
     year            |-> PySlice(Field(row_split, 0), 0, 4),
     month           |-> PySlice(Field(row_split, 0), 4, 6),
     day             |-> PySlice(Field(row_split, 0), 6, 8),
     hours_UTC       |-> PySlice(LStripSpace(Field(row_split, 1)), 0, 2),
     minutes_UTC     |-> PyLastN(Field(row_split, 1), 2),
     identifier      |-> PyLastN(Field(row_split, 2), 1),
     status          |-> PyLastN(Field(row_split, 3), 2),
     latitude        |-> Latitude(Field(row_split, 4)),
     longitude       |-> Longitude(Field(row_split, 5)),
     max_wind_knots  |-> IntField(row_split, 6),
     min_pressure_mb |-> IntField(row_split, 7),
     radii           |-> [q \in 1..12 |-> IntField(row_split, 7 + q)]]

RowError(headers, row_split) ==
    IF Len(row_split) = 4 THEN HeaderRowError(row_split)
    ELSE DataRowError(headers, row_split)

(***************************************************************************)
(* clean_data                                                              *)
(***************************************************************************)
sPOINT == <<"P", "O", "I", "N", "T", "(">>

sLINESTRING == <<"L", "I", "N", "E", "S", "T", "R", "I", "N", "G", "(">>

sNULL == <<"N", "U", "L", "L">>

\* year + "-" + month + "-" + day + "T" + hours + ":" + minutes + ":00.000Z"
PointTimeStr(p) ==
    p.year \o <<"-">> \o p.month \o <<"-">> \o p.day \o <<"T">>
        \o p.hours_UTC \o <<":">> \o p.minutes_UTC \o TimeSuffix

Location(p) ==
    sPOINT \o FloatStr(p.longitude) \o <<" ">> \o FloatStr(p.latitude) \o <<")">>

\* Series.astype(str).replace(old, "NULL"): whole values only
StrReplace(n, old) == IF IntStr(n) = old THEN sNULL ELSE IntStr(n)

PathToken(p) ==
    FloatStr(p.longitude) \o <<" ">> \o FloatStr(p.latitude) \o <<" ">>
        \o StrReplace(p.max_wind_knots, <<"-", "9", "9">>) \o <<" ">>
        \o StrReplace(p.min_pressure_mb, <<"-", "9", "9", "9">>)

\* DataFrame.replace of one column by a code table: a value that is no key
\* of the table is left as it is
ReplaceCode(table, raw) ==
    IF HasKey(table, raw) THEN Lookup(table, raw) ELSE StrCell(raw)

\* a fault for C6: every negative value is taken for the sentinel
ReplaceAnyNegative(v, sentinel) == IF v < 0 THEN NA ELSE IntCell(v)

\* DataFrame.replace of one column by {sentinel: pd.NA}
ReplaceSentinel(v, sentinel) == IF v = sentinel THEN NA ELSE IntCell(v)

CleanPoint(p) ==
    [event_id        |-> p.event_id,
     identifier      |-> ReplaceCode(record_identifier, p.identifier),
     status          |-> ReplaceCode(status, p.status),
     max_wind_knots  |-> ReplaceSentinel(p.max_wind_knots, -99),
     min_pressure_mb |-> ReplaceSentinel(p.min_pressure_mb, -999),
     radii           |-> [q \in 1..12 |-> ReplaceSentinel(p.radii[q], -999)],
     location        |-> Location(p),
     point_time      |-> IsoParse(PointTimeStr(p)).dt]

\* groupby("event_id", sort=False): the keys in order of first appearance
RECURSIVE KeysFrom(_, _, _)
KeysFrom(pts, i, seen) ==
    IF i > Len(pts) THEN seen
    ELSE IF \E j \in 1..Len(seen) : seen[j] = pts[i].event_id
    THEN KeysFrom(pts, i + 1, seen)
    ELSE KeysFrom(pts, i + 1, Append(seen, pts[i].event_id))

RECURSIVE Reverse(_)
Reverse(s) == IF Len(s) = 0 THEN <<>> ELSE Append(Reverse(Tail(s)), s[1])

\* a fault for C7: the groups come in another order than the headers
GroupKeysReversed(pts) == Reverse(KeysFrom(pts, 1, <<>>))

GroupKeys(pts) == KeysFrom(pts, 1, <<>>)

\* the rows of one group, in frame order
RECURSIVE GroupRows(_, _)
GroupRows(pts, key) ==
    IF Len(pts) = 0 THEN <<>>
    ELSE IF pts[1].event_id = key THEN <<pts[1]>> \o GroupRows(Tail(pts), key)
    ELSE GroupRows(Tail(pts), key)

\* groupby(...).first()["point_time"]: point_time is never null, so the
\* first value of the group is that of its first row
GroupFirstTime(pts, key) == IsoParse(PointTimeStr(GroupRows(pts, key)[1])).dt

\* groupby(...)["path"].apply(",".join)
GroupPath(pts, key) ==
    LET rows == GroupRows(pts, key)
    IN  Join([k \in 1..Len(rows) |-> PathToken(rows[k])], <<",">>)

\* a fault for C9: a column of another length is accepted
NoLengthCheck(nrows, nvalues) == "none"

\* events[col] = array: the lengths must agree
AssignError(nrows, nvalues) == IF nrows # nvalues THEN "ValueError" ELSE "none"

\* a fault for C3: a declared count of 2 gets no LINESTRING
GeometryLineFromThree(num_points, path) ==
    IF num_points = 1 THEN sPOINT \o path \o <<")">>
    ELSE IF num_points > 2 THEN sLINESTRING \o path \o <<")">>
    ELSE path

\* lines 170-171: the geometry is keyed on the declared num_points
Geometry(num_points, path) ==
    IF num_points = 1 THEN sPOINT \o path \o <<")">>
    ELSE IF num_points > 1 THEN sLINESTRING \o path \o <<")">>
    ELSE path

\* the first exception of points["point_time"].apply(isoparse)
RECURSIVE FirstTimeError(_, _)
FirstTimeError(pts, i) ==
    IF i > Len(pts) THEN "none"
    ELSE IF IsoParse(PointTimeStr(pts[i])).err # "none"
    THEN IsoParse(PointTimeStr(pts[i])).err
    ELSE FirstTimeError(pts, i + 1)

CleanDataError(ev, pts) ==
    IF FirstTimeError(pts, 1) # "none" THEN FirstTimeError(pts, 1)
    ELSE AssignError(Len(ev), Len(GroupKeys(pts)))

\* the i-th row of the returned events frame: the i-th group's values are
\* given to the i-th header, by position
CleanEvent(ev, pts, i) ==
    LET keys == GroupKeys(pts)
        has  == i <= Len(keys)
    IN  [event_id   |-> ev[i].event_id,
         basin      |-> ev[i].basin,
         name       |-> ev[i].name,
         start_time |-> IF has THEN GroupFirstTime(pts, keys[i]) ELSE NoDateTime,
         path       |-> Geometry(ev[i].num_points,
                                 IF has THEN GroupPath(pts, keys[i]) ELSE <<>>)]

(***************************************************************************)
(* The run: process_file, then clean_data on what it returned              *)
(***************************************************************************)
HeaderRow ==
    /\ pc = "extract"
    /\ row_idx <= Len(file)
    /\ LET row_split == Split(file[row_idx])
       IN  /\ Len(row_split) = 4
           /\ RowError(file_headers, row_split) = "none"
           /\ file_headers' = AppendRow(file_headers, HeaderRecord(row_split))
    /\ row_idx' = row_idx + 1
    /\ UNCHANGED <<file, pc, file_data, events, points, err>>

DataRow ==
    /\ pc = "extract"
    /\ row_idx <= Len(file)
    /\ LET row_split == Split(file[row_idx])
       IN  /\ Len(row_split) # 4
           /\ RowError(file_headers, row_split) = "none"
           /\ file_data' = AppendRow(file_data, DataRecord(file_headers, row_split))
    /\ row_idx' = row_idx + 1
    /\ UNCHANGED <<file, pc, file_headers, events, points, err>>

\* an exception leaves process_file: nothing is returned
RowRaises ==
    /\ pc = "extract"
    /\ row_idx <= Len(file)
    /\ RowError(file_headers, Split(file[row_idx])) # "none"
    /\ err' = RowError(file_headers, Split(file[row_idx]))
    /\ pc' = "failed"
    /\ file_headers' = <<>>
    /\ file_data' = <<>>
    /\ UNCHANGED <<file, row_idx, events, points>>

ProcessFileReturn ==
    /\ pc = "extract"
    /\ row_idx > Len(file)
    /\ pc' = "extracted"
    /\ UNCHANGED <<file, row_idx, file_headers, file_data, events, points, err>>

CleanData ==
    /\ pc = "extracted"
    /\ CleanDataError(file_headers, file_data) = "none"
    /\ events' = [i \in 1..Len(file_headers) |-> CleanEvent(file_headers, file_data, i)]
    /\ points' = [k \in 1..Len(file_data) |-> CleanPoint(file_data[k])]
    /\ pc' = "cleaned"
    /\ UNCHANGED <<file, row_idx, file_headers, file_data, err>>

\* an exception leaves clean_data: no frame is returned
CleanDataRaises ==
    /\ pc = "extracted"
    /\ CleanDataError(file_headers, file_data) # "none"
    /\ err' = CleanDataError(file_headers, file_data)
    /\ pc' = "failed"
    /\ UNCHANGED <<file, row_idx, file_headers, file_data, events, points>>

Next ==
    \/ HeaderRow
    \/ DataRow
    \/ RowRaises
    \/ ProcessFileReturn
    \/ CleanData
    \/ CleanDataRaises

(***************************************************************************)
(* The files the run is started on                                         *)
(***************************************************************************)
\* the longest file built from StructRows
MaxLines == 4

Comma == <<",">>

\* a header row as the data set writes it: id, padded name, padded count
HdrRow(id, count) ==
    id \o Comma \o <<" ", " ", " ", " ", " ", " ", "I", "D", "A">> \o Comma \o count \o <<",", "\n">>

IdA == <<"A", "L", "0", "1", "1", "8", "5", "1">>

IdB == <<"A", "L", "0", "2", "1", "8", "5", "1">>

\* the 20 fields of a data row, before they are written out
BaseObs ==
    [date  |-> <<"1", "8", "5", "1", "0", "6", "2", "5">>,
     time  |-> <<" ", "0", "0", "0", "0">>,
     ident |-> <<" ", "L">>,
     stat  |-> <<" ", "H", "U">>,
     lat   |-> <<" ", "2", "8", ".", "0", "N">>,
     lon   |-> <<" ", " ", "9", "4", ".", "8", "W">>,
     wind  |-> <<" ", " ", "8", "0">>,
     pres  |-> <<" ", " ", "9", "8", "5">>,
     radii |-> [q \in 1..12 |-> <<" ", "-", "9", "9", "9">>]]

OtherObs ==
    [date  |-> <<"1", "8", "5", "1", "0", "6", "2", "6">>,
     time  |-> <<" ", "0", "6", "0", "0">>,
     ident |-> <<" ", " ">>,
     stat  |-> <<" ", "T", "S">>,
     lat   |-> <<" ", "2", "8", ".", "1", "S">>,
     lon   |-> <<" ", " ", "9", "5", ".", "4", "E">>,
     wind  |-> <<" ", "-", "9", "9">>,
     pres  |-> <<" ", "-", "9", "9", "9">>,
     radii |-> [q \in 1..12 |-> <<" ", " ", " ", " ", "0">>]]

ObsFields(o) ==
    <<o.date, o.time, o.ident, o.stat, o.lat, o.lon, o.wind, o.pres>> \o o.radii

\* a data row as the data set writes it: every field is followed by a comma
ObsRow(o) == Join(ObsFields(o), Comma) \o <<",", "\n">>

\* a data row cut after its first n fields
CutRow(o, n) == Join(SubSeq(ObsFields(o), 1, n), Comma) \o <<"\n">>

\* a data row of the later format, with one more column
LongRow(o) == Join(ObsFields(o), Comma) \o Comma \o <<" ", " ", " ", "1", "5">> \o <<",", "\n">>

StructRows ==
    { HdrRow(IdA, <<" ", " ", " ", " ", "1">>),
      HdrRow(IdA, <<" ", " ", " ", " ", "2">>),
      HdrRow(IdB, <<" ", " ", " ", " ", "1">>),
      ObsRow(BaseObs),
      ObsRow(OtherObs),
      CutRow(BaseObs, 8) }

StructFiles == UNION { [1..n -> StructRows] : n \in 1..MaxLines }

IdentFields ==
    { <<" ", "C">>,
      <<" ", "G">>,
      <<" ", "I">>,
      <<" ", "L">>,
      <<" ", "P">>,
      <<" ", "R">>,
      <<" ", "S">>,
      <<" ", "T">>,
      <<" ", "W">>,
      <<" ", " ">>,
      <<" ", "X">>,
      <<" ", "l">>,
      <<"L">>,
      <<>> }

StatFields ==
    { <<" ", "T", "D">>,
      <<" ", "T", "S">>,
      <<" ", "H", "U">>,
      <<" ", "E", "X">>,
      <<" ", "S", "D">>,
      <<" ", "S", "S">>,
      <<" ", "L", "O">>,
      <<" ", "W", "V">>,
      <<" ", "D", "B">>,
      <<" ", " ", " ">>,
      <<" ", "E", "T">>,
      <<" ", "T", "Y">>,
      <<" ", "S", "T">>,
      <<" ", "P", "T">>,
      <<" ", "Z", "Z">>,
      <<" ", "h", "u">>,
      <<"H", "U">>,
      <<"U">>,
      <<>> }

LatFields ==
    { <<" ", "2", "8", ".", "0", "N">>,
      <<" ", "2", "8", ".", "0", "S">>,
      <<" ", " ", "0", ".", "0", "N">>,
      <<" ", " ", "0", ".", "0", "S">>,
      <<"0", "N">>,
      <<"0", "S">>,
      <<" ", "-", "5", ".", "5", "N">>,
      <<" ", "-", "5", ".", "5", "S">>,
      <<" ", "7", ".", "2", "5", "X">>,
      <<"N">>,
      <<" ", "2", "x", ".", "0", "S">>,
      <<" ", "1", "e", "1", "N">>,
      <<"1", "e", "-", "4", "0", "0", "S">>,
      <<"0", ".", "0", "0", "0", "0", "1", "S">>,
      <<"i", "n", "f", "S">>,
      <<"n", "a", "n", "S">>,
      <<"-", "n", "a", "n", "S">>,
      <<>> }

LonFields ==
    { <<" ", " ", "9", "4", ".", "8", "W">>,
      <<" ", " ", "9", "4", ".", "8", "E">>,
      <<" ", " ", " ", "0", ".", "0", "W">>,
      <<" ", " ", " ", "0", ".", "0", "E">>,
      <<"-", "0", ".", "0", "W">>,
      <<"-", "0", ".", "0", "E">>,
      <<" ", "1", "0", "1", ".", "W">>,
      <<" ", "9", "_", "0", ".", "5", "E">>,
      <<" ", "7", ".", "2", "5", "X">>,
      <<"W">>,
      <<"1", ".", "2", ".", "3", "W">>,
      <<"U+00A0", " ", "9", "4", ".", "8", "W">>,
      <<"1", "e", "1", "6", "E">>,
      <<"1", "e", "4", "0", "0", "W">>,
      <<>> }

\* magnitudes of more than 15 significant digits, which float() rounds
RoundedFields ==
    { <<"0", ".", "1", "2", "3", "4", "5", "6", "7", "8", "9", "0",
        "1", "2", "3", "4", "5", "6", "7", "8", "9", "S">>,
      <<"9", "0", "0", "7", "1", "9", "9", "2", "5", "4", "7", "4",
        "0", "9", "9", "3", "N">> }

WindFields ==
    { <<" ", "-", "9", "9">>,
      <<" ", "-", "9", "9", "9">>,
      <<" ", " ", " ", "0">>,
      <<" ", " ", "6", "5">>,
      <<"-", "0", "9", "9">>,
      <<" ", "+", "9", "9">>,
      <<" ", "6", " ", "5">>,
      <<" ", "", "8", "0">>,
      <<"U+00A0", "8", "0", "U+2003">>,
      <<" ", "U+0668", "U+0660">>,
      <<>>,
      <<"-">> }

PresFields ==
    { <<" ", "-", "9", "9", "9">>,
      <<" ", " ", "-", "9", "9">>,
      <<" ", " ", " ", " ", "0">>,
      <<" ", " ", "9", "8", "5">>,
      <<" ", "1", "_", "0", "1", "3">>,
      <<" ", "9", "8", ".", "5">> }

RadiusFields ==
    { <<" ", "-", "9", "9", "9">>,
      <<" ", " ", "-", "9", "9">>,
      <<" ", " ", " ", " ", "0">>,
      <<" ", " ", " ", "3", "4">>,
      <<" ", " ", "9", "9", "9">>,
      <<"a">> }

DateFields ==
    { <<"1", "8", "5", "1", "0", "6", "2", "5">>,
      <<"2", "0", "0", "0", "0", "2", "2", "9">>,
      <<"1", "9", "0", "0", "0", "2", "2", "9">>,
      <<"1", "8", "5", "1", "1", "3", "0", "1">>,
      <<"1", "8", "5", "1", "0", "6", "3", "1">>,
      <<"0", "0", "0", "0", "0", "1", "0", "1">>,
      <<"1", "8", "5", "1", "0", "6", "2">>,
      <<"1", "8", "5", "1", "0", "6", "2", "5", "0">>,
      <<"1", "8", "5", "1", " ", "6", "2", "5">>,
      <<"1", "8", "5", "1", "-", "6", "-", "2">>,
      <<"1", "8", "5", "1", "0", "6", "2", "U+0665">>,
      <<"1", "8", "5", "1", "0", "6", "2", "">> }

TimeFields ==
    { <<" ", "0", "0", "0", "0">>,
      <<" ", "1", "8", "4", "5">>,
      <<" ", "2", "4", "0", "0">>,
      <<" ", "2", "4", "0", "1">>,
      <<" ", "2", "3", "6", "0">>,
      <<" ", "6", "0", "0">>,
      <<"6", "0", "0">>,
      <<"0">>,
      <<>>,
      <<"+", "1", "0", "0">>,
      <<"Z", "0", "0", "0">>,
      <<" ", "1", "2", ":", "3", "0">> }

CountFields ==
    { <<" ", " ", " ", " ", "1">>,
      <<" ", " ", " ", " ", "2">>,
      <<" ", " ", " ", "3", "9">>,
      <<" ", " ", " ", " ", "0">>,
      <<" ", " ", " ", "-", "1">>,
      <<" ", " ", "1", " ">>,
      <<" ", "o", "n", "e">>,
      <<>> }

\* data rows that differ from BaseObs in one column, or in two columns
\* that the code treats alike
FieldRows ==
    { ObsRow([BaseObs EXCEPT !.ident = x]) : x \in IdentFields }
        \cup { ObsRow([BaseObs EXCEPT !.stat = x]) : x \in StatFields }
        \cup { ObsRow([BaseObs EXCEPT !.lat = x, !.lon = y]) :
                   x \in LatFields, y \in LonFields }
        \cup { ObsRow([BaseObs EXCEPT !.lat = x]) : x \in RoundedFields }
        \cup { ObsRow([BaseObs EXCEPT !.wind = x, !.pres = y]) :
                   x \in WindFields, y \in PresFields }
        \cup { ObsRow([BaseObs EXCEPT !.radii[q] = x]) :
                   q \in 1..12, x \in RadiusFields }
        \cup { ObsRow([BaseObs EXCEPT !.date = x]) : x \in DateFields }
        \cup { ObsRow([BaseObs EXCEPT !.time = x]) : x \in TimeFields }
        \cup { CutRow(BaseObs, n) : n \in 1..20 }
        \cup { LongRow(BaseObs), <<"\n">> }

FieldFiles ==
    { <<HdrRow(IdA, <<" ", " ", " ", " ", "1">>), r>> : r \in FieldRows }
        \cup { <<HdrRow(IdA, c), ObsRow(BaseObs)>> : c \in CountFields }
        \cup { <<HdrRow(id, <<" ", " ", " ", " ", "1">>), ObsRow(BaseObs)>> :
                   id \in { <<"A", "L", "0", "1">>, <<>>, <<" ", "E", "P", "0", "9", "2", "0", "1", "9", " ">> } }

Init ==
    /\ file \in StructFiles \cup FieldFiles
    /\ pc = "extract"
    /\ row_idx = 1
    /\ file_headers = <<>>
    /\ file_data = <<>>
    /\ events = <<>>
    /\ points = <<>>
    /\ err = "none"

Spec == Init /\ [][Next]_vars

(***************************************************************************)
(* The source file as the claims read it: rows, field counts, owners       *)
(***************************************************************************)
NumFields(row) == Cardinality({i \in 1..Len(row) : row[i] = ","}) + 1

HeaderLines == {i \in 1..Len(file) : NumFields(file[i]) = 4}

ObsLines == {i \in 1..Len(file) : NumFields(file[i]) # 4}

\* the k-th element of a set of row numbers, in source order
Nth(lines, k) == CHOOSE i \in lines : Cardinality({j \in lines : j <= i}) = k

\* the text of a row before its first comma
FirstField(row) ==
    LET commas == {i \in 1..Len(row) : row[i] = ","}
    IN  IF commas = {} THEN row
        ELSE SubSeq(row, 1, (CHOOSE i \in commas : \A j \in commas : i <= j) - 1)

HeadersBefore(i) == {j \in HeaderLines : j < i}

\* the nearest header row before row i
OwnerLine(i) == CHOOSE j \in HeadersBefore(i) : \A h \in HeadersBefore(i) : h <= j

\* process_file has returned its two lists (clean_data may have run since)
Returned == pc \in {"extracted", "cleaned"} \/ (pc = "failed" /\ row_idx > Len(file))

\* the rows of the returned points frame that belong to one storm
PointsOf(id) == {k \in 1..Len(points) : points[k].event_id = id}

StartsWith(s, prefix) == Len(s) >= Len(prefix) /\ SubSeq(s, 1, Len(prefix)) = prefix

\* the vertices of a WKT coordinate list are separated by commas
VertexCount(path) == NumFields(path)

(***************************************************************************)
(* C1: once process_file has returned, there is one observation record per *)
(* row whose field count is not 4, in source order, and the event_id of    *)
(* each is the first field of the nearest preceding row with exactly 4     *)
(* fields; there is one header record per 4-field row.                     *)
(***************************************************************************)
C1_NearestPrecedingHeader ==
    Returned =>
        /\ Len(file_headers) = Cardinality(HeaderLines)
        /\ Len(file_data) = Cardinality(ObsLines)
        /\ \A k \in 1..Len(file_data) :
              /\ HeadersBefore(Nth(ObsLines, k)) # {}
              /\ file_data[k].event_id = FirstField(file[OwnerLine(Nth(ObsLines, k))])

\* two storms were extracted, each with its own observation
C1_Witness ==
    /\ pc = "extracted"
    /\ Len(file_headers) = 2
    /\ Len(file_data) = 2
    /\ file_data[1].event_id # file_data[2].event_id

(***************************************************************************)
(* C2: in the frames clean_data returns, a storm with exactly one          *)
(* observation has a POINT path holding that observation, and a storm with *)
(* more than one has a LINESTRING path through all of them, whatever count *)
(* its header declares.                                                    *)
(***************************************************************************)
C2_GeometryByObservationCount ==
    pc = "cleaned" =>
        \A i \in 1..Len(events) :
            LET n == Cardinality(PointsOf(events[i].event_id))
            IN  /\ n = 1 => /\ StartsWith(events[i].path, sPOINT)
                            /\ VertexCount(events[i].path) = 1
                /\ n > 1 => /\ StartsWith(events[i].path, sLINESTRING)
                            /\ VertexCount(events[i].path) = n

(***************************************************************************)
(* C3: in the frames clean_data returns, a storm whose header declares 1   *)
(* point has a POINT path, and a storm whose header declares more than 1   *)
(* has a LINESTRING path with as many vertices as the storm has            *)
(* observations.                                                           *)
(***************************************************************************)
C3_GeometryByDeclaredCount ==
    pc = "cleaned" =>
        /\ Len(events) = Len(file_headers)
        /\ \A i \in 1..Len(events) :
              /\ file_headers[i].num_points = 1 => StartsWith(events[i].path, sPOINT)
              /\ file_headers[i].num_points > 1 =>
                    /\ StartsWith(events[i].path, sLINESTRING)
                    /\ VertexCount(events[i].path)
                           = Cardinality(PointsOf(events[i].event_id))

\* a storm declared with 2 points and extracted with 2 observations
C3_Witness ==
    /\ pc = "cleaned"
    /\ \E i \in 1..Len(events) :
          /\ file_headers[i].num_points = 2
          /\ Cardinality(PointsOf(events[i].event_id)) = 2

(***************************************************************************)
(* C4: clean_data never returns frames for an observation whose raw        *)
(* identifier or status is no key of its code table: every returned        *)
(* identifier and status is a table integer or missing.                    *)
(***************************************************************************)
C4_UnknownCodeAborts ==
    pc = "cleaned" =>
        \A k \in 1..Len(file_data) :
            /\ HasKey(record_identifier, file_data[k].identifier)
            /\ HasKey(status, file_data[k].status)
            /\ points[k].identifier.tag \in {"int", "NA"}
            /\ points[k].status.tag \in {"int", "NA"}

(***************************************************************************)
(* C5: a file holding an observation row with fewer than 20 fields, or a   *)
(* row with a parsed field that is no number, is never extracted:          *)
(* process_file does not return, it does not read past the row, it skips   *)
(* no row on the way, and the failed run keeps no record.                  *)
(***************************************************************************)
ShortObs(row) == NumFields(row) # 4 /\ NumFields(row) < 20

BadNumber(row) ==
    LET f == Split(row)
    IN  IF Len(f) = 4 THEN ~IntParse(f[3]).ok
        ELSE \E k \in 5..Min(20, Len(f)) :
                 IF k \in {5, 6} THEN ~FloatOk(PyAllButLast(f[k]))
                 ELSE ~IntParse(f[k]).ok

Malformed == {i \in 1..Len(file) : ShortObs(file[i]) \/ BadNumber(file[i])}

C5_MalformedFailsWholeFile ==
    Malformed # {} =>
        /\ ~Returned
        /\ \A i \in Malformed : row_idx <= i
        /\ pc = "extract" => Len(file_headers) + Len(file_data) = row_idx - 1
        /\ pc = "failed" => file_headers = <<>> /\ file_data = <<>>

\* the run failed on a malformed third row, after two good rows
C5_Witness ==
    /\ pc = "failed"
    /\ row_idx = 3
    /\ row_idx \in Malformed
    /\ err \in {"IndexError", "ValueError"}

(***************************************************************************)
(* C6: in the frames clean_data returns, max_wind_knots is missing exactly *)
(* when the extracted value is -99, min_pressure_mb and each of the 12     *)
(* radii are missing exactly when the extracted value is -999, and every   *)
(* other value is returned as the same integer.                            *)
(***************************************************************************)
SentinelRule(cell, v, sentinel) ==
    IF v = sentinel THEN cell = NA ELSE cell.tag = "int" /\ cell.int = v

C6_SentinelPerField ==
    pc = "cleaned" =>
        /\ Len(points) = Len(file_data)
        /\ \A k \in 1..Len(points) :
              /\ SentinelRule(points[k].max_wind_knots, file_data[k].max_wind_knots, -99)
              /\ SentinelRule(points[k].min_pressure_mb, file_data[k].min_pressure_mb, -999)
              /\ \A q \in 1..12 :
                    SentinelRule(points[k].radii[q], file_data[k].radii[q], -999)

\* each sentinel in the other's column: a wind of -999 and a pressure of -99
C6_Witness ==
    /\ pc = "cleaned"
    /\ \E k \in 1..Len(points) :
          /\ file_data[k].max_wind_knots = -999
          /\ file_data[k].min_pressure_mb = -99

(***************************************************************************)
(* C7: in the frames clean_data returns, the start_time of every storm is  *)
(* the point_time of the first returned observation, in source order, that *)
(* carries the storm's event_id.                                           *)
(***************************************************************************)
C7_StartTimeOfOwnFirstObservation ==
    pc = "cleaned" =>
        \A i \in 1..Len(events) :
            /\ PointsOf(events[i].event_id) # {}
            /\ events[i].start_time
                   = points[Nth(PointsOf(events[i].event_id), 1)].point_time

\* two storms that start at different times
C7_Witness ==
    /\ pc = "cleaned"
    /\ Len(events) = 2
    /\ events[1].start_time # events[2].start_time

(***************************************************************************)
(* C8: the returned storms are the header rows of the file in source       *)
(* order, and the returned observations are the observation rows of the    *)
(* file in source order, none dropped, repeated or moved.                  *)
(***************************************************************************)
C8_SourceOrderKept ==
    pc = "cleaned" =>
        /\ Len(events) = Cardinality(HeaderLines)
        /\ Len(points) = Cardinality(ObsLines)
        /\ \A i \in 1..Len(events) :
              LET h == HeaderRecord(Split(file[Nth(HeaderLines, i)]))
              IN  /\ events[i].event_id = h.event_id
                  /\ events[i].basin = h.basin
                  /\ events[i].name = h.name
        /\ \A k \in 1..Len(points) :
              LET row   == Nth(ObsLines, k)
                  owner == <<HeaderRecord(Split(file[OwnerLine(row)]))>>
              IN  points[k] = CleanPoint(DataRecord(owner, Split(file[row])))

\* one storm with two different observations
C8_Witness ==
    /\ pc = "cleaned"
    /\ Len(events) = 1
    /\ Len(points) = 2
    /\ points[1].location # points[2].location

(***************************************************************************)
(* C9: the storms clean_data returns have pairwise distinct event_ids and  *)
(* at least one returned observation each; a file that repeats a header    *)
(* event_id, or has a header row not followed by an observation row, never *)
(* gets its frames returned.                                               *)
(***************************************************************************)
RepeatedHeaderId ==
    \E i, j \in HeaderLines : i < j /\ FirstField(file[i]) = FirstField(file[j])

HeaderWithoutObs == \E i \in HeaderLines : i = Len(file) \/ (i + 1) \in HeaderLines

C9_UniqueStormsWithObservations ==
    /\ pc = "cleaned" =>
          /\ \A i, j \in 1..Len(events) :
                events[i].event_id = events[j].event_id => i = j
          /\ \A i \in 1..Len(events) : PointsOf(events[i].event_id) # {}
    /\ (RepeatedHeaderId \/ HeaderWithoutObs) => pc # "cleaned"

\* clean_data refused a file that repeats an event_id, every header of
\* which is followed by an observation
C9_Witness ==
    /\ pc = "failed"
    /\ row_idx > Len(file)
    /\ err = "ValueError"
    /\ RepeatedHeaderId
    /\ ~HeaderWithoutObs

(***************************************************************************)
(* C10: for every extracted observation, a latitude field that is a        *)
(* magnitude followed by N or S, and a longitude field that is a magnitude *)
(* followed by E or W, is extracted as the float of the magnitude with the *)
(* sign set exactly for S, respectively W, and the letter derived from the *)
(* value (S or W if it is less than zero, N or E otherwise) is the letter  *)
(* of the field. A magnitude is an unsigned number float() reads, nan      *)
(* apart.                                                                  *)
(***************************************************************************)
\* a field that is an unsigned number float() reads, other than nan,
\* followed by one of letters
IsMagnitudeField(f, letters) ==
    /\ Len(f) > 0
    /\ f[Len(f)] \in letters
    /\ FloatOk(PyAllButLast(f))
    /\ ~HasSign(Strip(PyAllButLast(f)))
    /\ FloatParse(PyAllButLast(f)).kind # "nan"

\* x is float() of the magnitude of f, up to its sign
SameMagnitude(x, f) == [x EXCEPT !.neg = FALSE] = FloatParse(PyAllButLast(f))

DerivedLetter(x, negative, positive) == IF FloatLtZero(x) THEN negative ELSE positive

\* the latitude and longitude fields of the row behind file_data[k]
LatField(k) == Split(file[Nth(ObsLines, k)])[5]

LonField(k) == Split(file[Nth(ObsLines, k)])[6]

HemisphereRoundTrip(k, zeroToo) ==
    /\ IsMagnitudeField(LatField(k), {"N", "S"}) =>
          LET x == file_data[k].latitude
              f == LatField(k)
          IN  /\ SameMagnitude(x, f)
              /\ x.neg <=> f[Len(f)] = "S"
              /\ (zeroToo \/ ~FloatIsZero(x)) => DerivedLetter(x, "S", "N") = f[Len(f)]
    /\ IsMagnitudeField(LonField(k), {"E", "W"}) =>
          LET x == file_data[k].longitude
              f == LonField(k)
          IN  /\ SameMagnitude(x, f)
              /\ x.neg <=> f[Len(f)] = "W"
              /\ (zeroToo \/ ~FloatIsZero(x)) => DerivedLetter(x, "W", "E") = f[Len(f)]

\* the claim as stated: the round trip holds for a magnitude of zero too
C10_RoundTripEveryMagnitude ==
    Returned => \A k \in 1..Len(file_data) : HemisphereRoundTrip(k, TRUE)

(***************************************************************************)
(* C10, amended: as above, and the derived letter is the letter of the     *)
(* field for every magnitude whose float is not zero: that leaves out the  *)
(* magnitudes that are zero and those float() rounds to zero.              *)
(***************************************************************************)
C10_RoundTripNonzeroMagnitude ==
    Returned => \A k \in 1..Len(file_data) : HemisphereRoundTrip(k, FALSE)

\* a southern latitude with an eastern longitude, neither of them zero
C10_Witness ==
    /\ pc = "extracted"
    /\ \E k \in 1..Len(file_data) :
          /\ IsMagnitudeField(LatField(k), {"N", "S"})
          /\ IsMagnitudeField(LonField(k), {"E", "W"})
          /\ FloatLtZero(file_data[k].latitude)
          /\ ~file_data[k].longitude.neg
          /\ ~FloatIsZero(file_data[k].longitude)

====
